---- MODULE Spec2Model ----
(***************************************************************************)
(* Model of the Tweet Automator:                                           *)
(*   - the 'twitter-post' IPC handler of the Electron main process         *)
(*     (OAuth 1.0a signing, retry loop with exponential backoff);          *)
(*   - the automation scheduler of the React component TweetAutomator      *)
(*     (startAutomation / stopAutomation / runAutomationCycle /            *)
(*     processCycle / postToTwitter).                                      *)
(* JavaScript strings are sequences of one-character strings.              *)
(***************************************************************************)
EXTENDS Integers, Sequences, FiniteSets, TLC

VARIABLES
    \* ---- main process: one call of ipcMain.handle('twitter-post') ----
    tpPc,        \* "idle" | "loop" | "fetch" | "sleep" | "done"
    keys,        \* the { consumerKey, consumerSecret, accessToken, tokenSecret } argument
    attempt,     \* loop variable of the retry loop
    delay,       \* current backoff delay in ms
    clock,       \* Date.now() of the main process, in ms
    minted,      \* number of nonces drawn from crypto.randomBytes so far
    sent,        \* the requests handed to fetch, in order
    sleeps,      \* the backoff sleeps performed, in order (ms)
    outcomes,    \* what each fetch produced, in order
    result,      \* how the handler's promise settled
    \* ---- renderer: the TweetAutomator component ----
    mounted,         \* the component is mounted (its buttons can be clicked)
    config,          \* useState: config
    topics,          \* useState: topics
    status,          \* useState: status
    isAutomated,     \* useState: isAutomated
    nextRunTime,     \* useState: nextRunTime (ms), NoTime for null
    timeRemaining,   \* useState: timeRemaining
    timerRef,        \* timerRef.current, 0 for null
    countdownRef,    \* countdownRef.current, 0 for null
    timers,          \* the intervals armed by setInterval and not cleared
    cycles,          \* the processCycle calls in flight, oldest first
    lastDone,        \* the processCycle call that completed last
    launched,        \* number of processCycle calls so far
    lastSchedTrigger,\* when runAutomationCycle ran last (ms), NoTime if never
    now,             \* Date.now() of the renderer, in ms
    \* ---- one call of OAuth.generateSignature ----
    signPc,          \* "idle" | "ready" | "done"
    signArgs,        \* the arguments of the call
    signResult,      \* what the call returned
    \* ---- renderer: the topic manager ----
    newTopic,        \* useState: newTopic, the text of the input field
    \* ---- main process: the store and the application's life ----
    store,                \* the electron-store file: what is stored under each key
    encryptionAvailable,  \* safeStorage.isEncryptionAvailable()
    loadedConfig,         \* what 'store-get-config' returned last
    appRunning,           \* the application process is alive
    mainWindow,           \* the main window exists (mainWindow is not null)
    windowVisible,        \* mainWindow.isVisible()
    isQuitting,           \* app.isQuitting
    hasShownTrayNotice,   \* mainWindow.hasShownTrayNotice
    quitRequested,        \* app.quit() has been called
    \* ---- main process: one call of ipcMain.handle('gemini-generate') ----
    ggPc,        \* "idle" | "loop" | "fetch" | "sleep" | "done"
    ggAttempt,   \* loop variable of the retry loop
    ggDelay,     \* current backoff delay in ms
    ggRequests,  \* number of requests handed to fetch
    ggSleeps,    \* the backoff sleeps performed, in order (ms)
    ggOutcomes,  \* what each fetch produced, in order
    ggResult     \* how the handler's promise settled

postVars == <<tpPc, keys, attempt, delay, clock, minted, sent, sleeps, outcomes, result>>

schedVars == <<mounted, config, topics, status, isAutomated, nextRunTime, timeRemaining,
               timerRef, countdownRef, timers, cycles, lastDone, launched,
               lastSchedTrigger, now>>

signVars == <<signPc, signArgs, signResult>>

editVars == <<newTopic>>

mainVars == <<store, encryptionAvailable, loadedConfig, appRunning, mainWindow, windowVisible,
              isQuitting, hasShownTrayNotice, quitRequested>>

genVars == <<ggPc, ggAttempt, ggDelay, ggRequests, ggSleeps, ggOutcomes, ggResult>>

vars == <<postVars, schedVars, signVars, editVars, mainVars, genVars>>

----------------------------------------------------------------------------
(* Strings *)

Null == "null"

\* Printable ASCII, code points 32..126, in code-point order (the double quote,
\* the backslash and the backtick are left out of the alphabet: their places are kept).
AsciiTable ==
    << " ", "!", "<quote>", "#", "$", "%", "&", "'", "(", ")", "*", "+", ",", "-", ".", "/",
       "0", "1", "2", "3", "4", "5", "6", "7", "8", "9", ":", ";", "<", "=", ">", "?",
       "@", "A", "B", "C", "D", "E", "F", "G", "H", "I", "J", "K", "L", "M", "N", "O",
       "P", "Q", "R", "S", "T", "U", "V", "W", "X", "Y", "Z", "[", "<backslash>", "]", "^", "_",
       "<backtick>", "a", "b", "c", "d", "e", "f", "g", "h", "i", "j", "k", "l", "m", "n", "o",
       "p", "q", "r", "s", "t", "u", "v", "w", "x", "y", "z", "{", "|", "}", "~" >>

Alphabet == {AsciiTable[i] : i \in 1..Len(AsciiTable)}

\* charCodeAt(0) of a one-character string
CodeTable == [c \in Alphabet |-> 31 + (CHOOSE i \in 1..Len(AsciiTable) : AsciiTable[i] = c)]

CharCode(c) == CodeTable[c]

CharOf(n) == AsciiTable[n - 31]

HexDigits == <<"0", "1", "2", "3", "4", "5", "6", "7", "8", "9", "A", "B", "C", "D", "E", "F">>

IsAlnum(c) ==
    LET n == CharCode(c) IN
    \/ n >= 48 /\ n <= 57
    \/ n >= 65 /\ n <= 90
    \/ n >= 97 /\ n <= 122

\* Concatenation of a sequence of strings (balanced, to keep the evaluation shallow).
RECURSIVE Flatten(_)
Flatten(ss) ==
    IF Len(ss) = 0 THEN <<>>
    ELSE IF Len(ss) = 1 THEN ss[1]
    ELSE LET m == Len(ss) \div 2
         IN  Flatten(SubSeq(ss, 1, m)) \o Flatten(SubSeq(ss, m + 1, Len(ss)))

\* encodeURIComponent: everything but A-Z a-z 0-9 - _ . ! ~ * ' ( ) becomes %XX.
EncodeChar(c) ==
    LET n == CharCode(c)
    IN  IF IsAlnum(c) \/ c \in {"-", "_", ".", "!", "~", "*", "'", "(", ")"}
        THEN <<c>>
        ELSE <<"%", HexDigits[(n \div 16) + 1], HexDigits[(n % 16) + 1]>>

EncodeTable == [c \in Alphabet |-> EncodeChar(c)]

\* The value undefined, where the code expects a string.
Undefined == <<"<undefined>">>

\* String(value): what a template literal or encodeURIComponent makes of its argument.
StringOfBlank(value) == IF value = Undefined THEN <<>> ELSE value

StringOf(value) ==
    IF value = Undefined THEN <<"u", "n", "d", "e", "f", "i", "n", "e", "d">> ELSE value

encodeURIComponent(str) ==
    LET s == StringOf(str) IN Flatten([i \in 1..Len(s) |-> EncodeTable[s[i]]])

\* String.prototype.replace(/c/g, to) for a one-character pattern.
ReplaceAll(str, c, to) ==
    Flatten([i \in 1..Len(str) |-> IF str[i] = c THEN to ELSE <<str[i]>>])

\* The five replace() calls chained on encodeURIComponent's result.
EscapeReservedNone(str) == str

EscapeReserved(str) ==
    ReplaceAll(ReplaceAll(ReplaceAll(ReplaceAll(ReplaceAll(str,
        "!", <<"%", "2", "1">>),
        "*", <<"%", "2", "A">>),
        "'", <<"%", "2", "7">>),
        "(", <<"%", "2", "8">>),
        ")", <<"%", "2", "9">>)

\* Both steps work character by character, so the result is the concatenation of
\* the results for the single characters.
PercentTable == [c \in Alphabet |-> EscapeReserved(encodeURIComponent(<<c>>))]

percentEncode(str) ==
    LET s == StringOf(str) IN Flatten([i \in 1..Len(s) |-> PercentTable[s[i]]])

toUpperCase(str) ==
    [i \in 1..Len(str) |->
        LET n == CharCode(str[i])
        IN  IF n >= 97 /\ n <= 122 THEN CharOf(n - 32) ELSE str[i]]

\* Number.prototype.toString() of a natural number.
RECURSIVE NatToString(_)
NatToString(n) ==
    IF n < 10 THEN <<HexDigits[n + 1]>>
    ELSE NatToString(n \div 10) \o <<HexDigits[(n % 10) + 1]>>

\* The < of Array.prototype.sort() without a comparator: by UTF-16 code units.
RECURSIVE StrLess(_, _)
StrLess(a, b) ==
    IF b = <<>> THEN FALSE
    ELSE IF a = <<>> THEN TRUE
    ELSE IF Head(a) = Head(b) THEN StrLess(Tail(a), Tail(b))
    ELSE CharCode(Head(a)) < CharCode(Head(b))

\* Insertion of a key into a sorted sequence of keys.
RECURSIVE SortedInsert(_, _)
SortedInsert(k, ks) ==
    IF ks = <<>> THEN <<k>>
    ELSE IF StrLess(Head(ks), k) THEN <<Head(ks)>> \o SortedInsert(k, Tail(ks))
    ELSE <<k>> \o ks

KeepOrder(ks) == ks

RECURSIVE SortKeys(_)
SortKeys(ks) == IF ks = <<>> THEN <<>> ELSE SortedInsert(Head(ks), SortKeys(Tail(ks)))

----------------------------------------------------------------------------
(* OAuth 1.0a helper of the main process *)

\* A parameter map is a sequence of <<key, value>> pairs in insertion order.
ObjectKeys(params) == [i \in 1..Len(params) |-> params[i][1]]

Lookup(params, key) == params[CHOOSE i \in 1..Len(params) : params[i][1] = key][2]

RECURSIVE JoinParams(_, _)
JoinParams(sortedKeys, params) ==
    IF sortedKeys = <<>> THEN <<>>
    ELSE Head(sortedKeys) \o <<"=">> \o percentEncode(Lookup(params, Head(sortedKeys)))
         \o (IF Len(sortedKeys) > 1 THEN <<"&">> ELSE <<>>)
         \o JoinParams(Tail(sortedKeys), params)

\* crypto.createHmac('sha1', key).update(msg).digest('base64'): the digest is kept
\* symbolic, as the pair it is computed from.
HmacSha1Base64(key, msg) == [hmacKey |-> key, hmacMsg |-> msg]

\* `${percentEncode(consumerSecret)}&${percentEncode(tokenSecret)}`
SigningKey(consumerSecret, tokenSecret) ==
    percentEncode(consumerSecret) \o <<"&">> \o percentEncode(tokenSecret)

generateSignature(method, url, params, consumerSecret, tokenSecret) ==
    LET sortedKeys == SortKeys(ObjectKeys(params))
        paramString == JoinParams(sortedKeys, params)
        signatureBase == toUpperCase(method) \o <<"&">> \o percentEncode(url)
                         \o <<"&">> \o percentEncode(paramString)
        signingKey == SigningKey(consumerSecret, tokenSecret)
    IN  HmacSha1Base64(signingKey, signatureBase)

\* crypto.randomBytes(16).toString('hex'): the n-th draw, a token no other draw returns.
getNonceConstant(n) == <<"0">>

getNonce(n) == NatToString(n)

\* Math.floor(Date.now() / 1000).toString()
getTimestamp(nowMs) == NatToString(nowMs \div 1000)

----------------------------------------------------------------------------
(* ipcMain.handle('twitter-post') *)

maxRetries == 3

InitialDelayMs == 2000

BackoffFactor == 2

FetchTimeoutMs == 30000

method == <<"P", "O", "S", "T">>

url == <<"h", "t", "t", "p", "s", ":", "/", "/", "a", "p", "i", ".", "t", "w", "i", "t",
         "t", "e", "r", ".", "c", "o", "m", "/", "2", "/", "t", "w", "e", "e", "t", "s">>

\* The credential values a call is made with: each field empty or set.
ConsumerKeys == {<<>>, <<"c", "k">>}
ConsumerSecrets == {<<>>, <<"c", "s", "!">>}
AccessTokens == {<<>>, <<"a", "t">>}
TokenSecrets == {<<>>, <<"t", "s", "*">>}

KeySets == [consumerKey : ConsumerKeys, consumerSecret : ConsumerSecrets,
            accessToken : AccessTokens, tokenSecret : TokenSecrets]

NoKeys == [consumerKey |-> <<>>, consumerSecret |-> <<>>,
           accessToken |-> <<>>, tokenSecret |-> <<>>]

\* HTTP statuses the endpoint answers with.
Statuses == {200, 401, 404, 429, 500, 503}

\* How long a fetch takes to settle (ms), when it is not cut by the timeout.
Durations == {0, 600}

\* !value of a string
Falsy(str) == str = <<>>

MissingCredentials(k) ==
    Falsy(k.consumerKey) \/ Falsy(k.consumerSecret) \/ Falsy(k.accessToken) \/ Falsy(k.tokenSecret)

\* response.ok
ResponseOk(code) == code >= 200 /\ code <= 299

ClientErrorNoRetry(code) == code >= 400 /\ code < 500 /\ code # 429

AttemptsRemainInclusive(a) == a <= maxRetries

AttemptsRemain(a) == a < maxRetries

IsLastAttemptNever(a) == FALSE

IsLastAttempt(a) == a = maxRetries

NextDelayConstant(d) == d

NextDelay(d) == d * BackoffFactor

OAuthParams(consumerKey, accessToken, timestamp, nonce) ==
    << << <<"o","a","u","t","h","_","c","o","n","s","u","m","e","r","_","k","e","y">>, consumerKey >>,
       << <<"o","a","u","t","h","_","t","o","k","e","n">>, accessToken >>,
       << <<"o","a","u","t","h","_","s","i","g","n","a","t","u","r","e","_","m","e","t","h","o","d">>,
          <<"H","M","A","C","-","S","H","A","1">> >>,
       << <<"o","a","u","t","h","_","t","i","m","e","s","t","a","m","p">>, timestamp >>,
       << <<"o","a","u","t","h","_","n","o","n","c","e">>, nonce >>,
       << <<"o","a","u","t","h","_","v","e","r","s","i","o","n">>, <<"1", ".", "0">> >> >>

Unsettled == [kind |-> "none", name |-> "", status |-> 0]

Thrown(name, code) == [kind |-> "throw", name |-> name, status |-> code]

Returned(code) == [kind |-> "return", name |-> "data", status |-> code]

\* new Error(`Twitter API Error: ${response.status} ...`) of the 4xx branch
RejectedError(code) == Thrown("Twitter API Error", code)

\* new Error(`Twitter API Error: ${response.status} ...`) after the last attempt
ExhaustedError(code) == Thrown("Twitter API Error", code)

----------------------------------------------------------------------------
(* The TweetAutomator component: state *)

\* null, where the code holds a time or nothing
NoTime == -1

INTERVAL_MS == 40 * 60 * 1000

PostDelayMs == 2000

\* Number of processCycle calls a behaviour may make.
MaxCycles == 2

ConfigOf(g, ck, cs, at, ts) ==
    [geminiKey |-> g, twitterConsumerKey |-> ck, twitterConsumerSecret |-> cs,
     twitterAccessToken |-> at, twitterTokenSecret |-> ts]

\* useState's initial config with no REACT_APP_* variable set
EmptyConfig == ConfigOf("", "", "", "", "")

\* The configurations the settings form is brought to.
Configs == { ConfigOf("g", "ck", "cs", "at", "ts"),
             ConfigOf("", "ck", "cs", "at", "ts"),
             ConfigOf("g", "", "cs", "at", "ts"),
             ConfigOf("g", "ck", "", "at", "ts") }

\* The topic lists found in localStorage at mount.
TopicLists == { <<>>, <<"A", "B">> }

EmptyRemaining == [kind |-> "empty", minutes |-> 0, seconds |-> 0]

NoCycle ==
    [trigger |-> "none", isAutomated |-> FALSE, config |-> EmptyConfig, promptTopic |-> "",
     pc |-> "none", due |-> NoTime, text |-> "", reported |-> <<>>, genRequests |-> 0,
     postRequests |-> 0, posted |-> <<>>, postFailed |-> FALSE, intents |-> <<>>]

\* The component after its first render and its mount effect, which loads the
\* saved configuration and topics.
SchedStart(cfg, tps) ==
    /\ mounted = TRUE
    /\ config = cfg
    /\ topics = tps
    /\ status = "idle"
    /\ isAutomated = FALSE
    /\ nextRunTime = NoTime
    /\ timeRemaining = EmptyRemaining
    /\ timerRef = 0
    /\ countdownRef = 0
    /\ timers = {}
    /\ cycles = <<>>
    /\ lastDone = NoCycle
    /\ launched = 0
    /\ lastSchedTrigger = NoTime
    /\ now = 0

SchedIdle == SchedStart(EmptyConfig, <<>>)

NoSignature == [hmacKey |-> <<>>, hmacMsg |-> <<>>]

NoSignArgs == [method |-> <<>>, params |-> <<>>, consumerSecret |-> <<>>, tokenSecret |-> <<>>]

SignIdle ==
    /\ signPc = "idle"
    /\ signArgs = NoSignArgs
    /\ signResult = NoSignature

EditIdle == newTopic = <<>>

\* The keys 'store-save-config' writes.
StoreKeys == {"geminiKey", "twitterConsumerKey", "twitterConsumerSecret",
              "twitterAccessToken", "twitterTokenSecret"}

\* store.get(key) of a key that is not in the file
Absent == [form |-> "absent", value |-> ""]

EmptyStore == [k \in StoreKeys |-> Absent]

\* A string in the clear.
Clear(value) == [form |-> "plain", value |-> value]

\* safeStorage.encryptString(value).toString('base64')
Encrypted(value) == [form |-> "encrypted", value |-> value]

NothingLoaded == [k \in StoreKeys |-> Clear("")]

GeminiIdle ==
    /\ ggPc = "idle"
    /\ ggAttempt = 1
    /\ ggDelay = InitialDelayMs
    /\ ggRequests = 0
    /\ ggSleeps = <<>>
    /\ ggOutcomes = <<>>
    /\ ggResult = Unsettled

MainIdle ==
    /\ store = EmptyStore
    /\ encryptionAvailable = TRUE
    /\ loadedConfig = NothingLoaded
    /\ appRunning = FALSE
    /\ mainWindow = FALSE
    /\ windowVisible = FALSE
    /\ isQuitting = FALSE
    /\ hasShownTrayNotice = FALSE
    /\ quitRequested = FALSE

PostIdle ==
    /\ tpPc = "idle"
    /\ keys = NoKeys
    /\ attempt = 1
    /\ delay = InitialDelayMs
    /\ clock = 0
    /\ minted = 0
    /\ sent = <<>>
    /\ sleeps = <<>>
    /\ outcomes = <<>>
    /\ result = Unsettled

InitPost ==
    /\ EditIdle
    /\ MainIdle
    /\ GeminiIdle
    /\ SchedIdle
    /\ SignIdle
    /\ tpPc = "idle"
    /\ keys = NoKeys
    /\ attempt = 1
    /\ delay = InitialDelayMs
    /\ clock \in {0, 999}
    /\ minted = 0
    /\ sent = <<>>
    /\ sleeps = <<>>
    /\ outcomes = <<>>
    /\ result = Unsettled

\* The handler is invoked: destructuring, the credential check, the loop's setup.
Invoke(k) ==
    /\ tpPc = "idle"
    /\ UNCHANGED <<schedVars, signVars, editVars, mainVars, genVars>>
    /\ keys' = k
    /\ attempt' = 1
    /\ delay' = InitialDelayMs
    /\ IF MissingCredentials(k)
       THEN /\ tpPc' = "done"
            /\ result' = Thrown("Missing Twitter Credentials", 0)
       ELSE /\ tpPc' = "loop"
            /\ result' = result
    /\ UNCHANGED <<clock, minted, sent, sleeps, outcomes>>

\* The head of one loop iteration: parameters, signature, header, fetch.
SendAttempt ==
    /\ tpPc = "loop"
    /\ UNCHANGED <<schedVars, signVars, editVars, mainVars, genVars>>
    /\ LET timestamp == getTimestamp(clock)
           nonce == getNonce(minted + 1)
           oauthParams == OAuthParams(keys.consumerKey, keys.accessToken, timestamp, nonce)
           signature == generateSignature(method, url, oauthParams,
                                          keys.consumerSecret, keys.tokenSecret)
       IN  sent' = Append(sent, [attempt |-> attempt,
                                 oauth_consumer_key |-> keys.consumerKey,
                                 oauth_token |-> keys.accessToken,
                                 oauth_timestamp |-> timestamp,
                                 oauth_nonce |-> nonce,
                                 oauth_signature |-> signature])
    /\ minted' = minted + 1
    /\ tpPc' = "fetch"
    /\ UNCHANGED <<keys, attempt, delay, clock, sleeps, outcomes, result>>

CatchThrows(error) ==
    /\ tpPc' = "done"
    /\ result' = error
    /\ sleeps' = sleeps

CatchNoSleep(error) ==
    IF IsLastAttempt(attempt)
    THEN /\ tpPc' = "done"
         /\ result' = error
         /\ sleeps' = sleeps
    ELSE /\ tpPc' = "loop"
         /\ result' = result
         /\ sleeps' = sleeps

\* The catch block of the loop body, entered with the error thrown in the try block.
Catch(error) ==
    IF IsLastAttempt(attempt)
    THEN /\ tpPc' = "done"
         /\ result' = error
         /\ sleeps' = sleeps
    ELSE /\ tpPc' = "sleep"
         /\ result' = result
         /\ sleeps' = Append(sleeps, delay)

\* fetch rejects: a transport error after d ms, or the AbortSignal's timeout.
FetchFails(kind, d) ==
    /\ tpPc = "fetch"
    /\ UNCHANGED <<schedVars, signVars, editVars, mainVars, genVars>>
    /\ clock' = clock + (IF kind = "timeout" THEN FetchTimeoutMs ELSE d)
    /\ outcomes' = Append(outcomes, [kind |-> kind, status |-> 0, bodyOk |-> FALSE])
    /\ Catch(Thrown(IF kind = "timeout" THEN "TimeoutError" ELSE "TypeError", 0))
    /\ UNCHANGED <<keys, attempt, delay, minted, sent>>

\* fetch resolves with a response; bodyOk says whether reading the body
\* (response.text() of an error, response.json() of a success) succeeds.
FetchResponds(code, bodyOk, d) ==
    /\ tpPc = "fetch"
    /\ UNCHANGED <<schedVars, signVars, editVars, mainVars, genVars>>
    /\ clock' = clock + d
    /\ outcomes' = Append(outcomes, [kind |-> "response", status |-> code, bodyOk |-> bodyOk])
    /\ IF ~ResponseOk(code)
       THEN IF ~bodyOk
            THEN Catch(Thrown("TypeError", 0))
            ELSE IF ClientErrorNoRetry(code)
            THEN Catch(RejectedError(code))
            ELSE IF AttemptsRemain(attempt)
            THEN /\ tpPc' = "sleep"
                 /\ sleeps' = Append(sleeps, delay)
                 /\ result' = result
            ELSE Catch(ExhaustedError(code))
       ELSE IF bodyOk
            THEN /\ tpPc' = "done"
                 /\ result' = Returned(code)
                 /\ sleeps' = sleeps
            ELSE Catch(Thrown("SyntaxError", 0))
    /\ UNCHANGED <<keys, attempt, delay, minted, sent>>

\* The backoff sleep elapses: delay *= 2, then the loop's attempt++ and test.
Wake ==
    /\ tpPc = "sleep"
    /\ UNCHANGED <<schedVars, signVars, editVars, mainVars, genVars>>
    /\ clock' = clock + delay
    /\ delay' = NextDelay(delay)
    /\ attempt' = attempt + 1
    /\ IF attempt + 1 <= maxRetries
       THEN /\ tpPc' = "loop"
            /\ result' = result
       ELSE /\ tpPc' = "done"
            /\ result' = [kind |-> "return", name |-> "undefined", status |-> 0]
    /\ UNCHANGED <<keys, minted, sent, sleeps, outcomes>>

NextPost ==
    \/ \E k \in KeySets : Invoke(k)
    \/ SendAttempt
    \/ \E kind \in {"network", "timeout"}, d \in Durations : FetchFails(kind, d)
    \/ \E code \in Statuses, bodyOk \in BOOLEAN, d \in Durations :
           FetchResponds(code, bodyOk, d)
    \/ Wake

SpecPost == InitPost /\ [][NextPost]_vars

----------------------------------------------------------------------------
(* The 'gemini-generate' handler of the main process *)

\* Its retry loop has the constants of the 'twitter-post' loop: maxRetries = 3,
\* delay = 2000, delay *= 2, AbortSignal.timeout(30000).

\* The apiKey argument: missing, or a key.
ApiKeys == {"", "g"}

\* HTTP statuses the generation endpoint answers with.
GeminiStatuses == {200, 400, 429, 500, 503}

geminiFrame == UNCHANGED <<postVars, schedVars, signVars, editVars, mainVars>>

\* if (response.status === 503 && attempt < maxRetries)
GeminiRetries(code, a) == code = 503 /\ AttemptsRemain(a)

\* The handler is invoked: the key check and the loop's setup.
GeminiInvoke(apiKey) ==
    /\ ggPc = "idle"
    /\ ggAttempt' = 1
    /\ ggDelay' = InitialDelayMs
    /\ IF apiKey = ""
       THEN /\ ggPc' = "done"
            /\ ggResult' = Thrown("Missing Gemini API Key", 0)
       ELSE /\ ggPc' = "loop"
            /\ ggResult' = ggResult
    /\ UNCHANGED <<ggRequests, ggSleeps, ggOutcomes>>
    /\ geminiFrame

\* The head of one loop iteration: fetch is called.
GeminiSend ==
    /\ ggPc = "loop"
    /\ ggRequests' = ggRequests + 1
    /\ ggPc' = "fetch"
    /\ UNCHANGED <<ggAttempt, ggDelay, ggSleeps, ggOutcomes, ggResult>>
    /\ geminiFrame

\* The catch block of the loop body.
GeminiCatch(error) ==
    IF IsLastAttempt(ggAttempt)
    THEN /\ ggPc' = "done"
         /\ ggResult' = error
         /\ ggSleeps' = ggSleeps
    ELSE /\ ggPc' = "sleep"
         /\ ggResult' = ggResult
         /\ ggSleeps' = Append(ggSleeps, ggDelay)

\* fetch rejects: a transport error, or the AbortSignal's timeout.
GeminiFetchFails(kind) ==
    /\ ggPc = "fetch"
    /\ ggOutcomes' = Append(ggOutcomes, [kind |-> kind, status |-> 0, bodyOk |-> FALSE])
    /\ GeminiCatch(Thrown(IF kind = "timeout" THEN "TimeoutError" ELSE "TypeError", 0))
    /\ UNCHANGED <<ggAttempt, ggDelay, ggRequests>>
    /\ geminiFrame

\* fetch resolves with a response; bodyOk says whether reading the body
\* (response.text() of an error, response.json() of a success) succeeds.
GeminiFetchResponds(code, bodyOk) ==
    /\ ggPc = "fetch"
    /\ ggOutcomes' = Append(ggOutcomes,
                            [kind |-> "response", status |-> code, bodyOk |-> bodyOk])
    /\ IF ~ResponseOk(code)
       THEN IF ~bodyOk
            THEN GeminiCatch(Thrown("TypeError", 0))
            ELSE IF GeminiRetries(code, ggAttempt)
            THEN /\ ggPc' = "sleep"
                 /\ ggSleeps' = Append(ggSleeps, ggDelay)
                 /\ ggResult' = ggResult
            ELSE GeminiCatch(Thrown("Gemini API Error", code))
       ELSE IF bodyOk
            THEN /\ ggPc' = "done"
                 /\ ggResult' = Returned(code)
                 /\ ggSleeps' = ggSleeps
            ELSE GeminiCatch(Thrown("SyntaxError", 0))
    /\ UNCHANGED <<ggAttempt, ggDelay, ggRequests>>
    /\ geminiFrame

\* The backoff sleep elapses: delay *= 2, then the loop's attempt++ and test.
GeminiWake ==
    /\ ggPc = "sleep"
    /\ ggDelay' = NextDelay(ggDelay)
    /\ ggAttempt' = ggAttempt + 1
    /\ IF ggAttempt + 1 <= maxRetries
       THEN /\ ggPc' = "loop"
            /\ ggResult' = ggResult
       ELSE /\ ggPc' = "done"
            /\ ggResult' = [kind |-> "return", name |-> "undefined", status |-> 0]
    /\ UNCHANGED <<ggRequests, ggSleeps, ggOutcomes>>
    /\ geminiFrame

InitGemini ==
    /\ EditIdle
    /\ MainIdle
    /\ PostIdle
    /\ SchedIdle
    /\ SignIdle
    /\ GeminiIdle

\* What a call in progress does by itself.
GeminiProgress ==
    \/ GeminiSend
    \/ \E kind \in {"network", "timeout"} : GeminiFetchFails(kind)
    \/ \E code \in GeminiStatuses, bodyOk \in BOOLEAN : GeminiFetchResponds(code, bodyOk)
    \/ GeminiWake

NextGemini ==
    \/ \E apiKey \in ApiKeys : GeminiInvoke(apiKey)
    \/ GeminiProgress

SpecGemini == InitGemini /\ [][NextGemini]_vars

----------------------------------------------------------------------------
(* One call of either handler *)

\* What a publish call does by itself once its request is sent (SendAttempt,
\* the step before, has no condition but its place in the loop).
PostSettles ==
    \/ \E kind \in {"network", "timeout"}, d \in Durations : FetchFails(kind, d)
    \/ \E code \in Statuses, bodyOk \in BOOLEAN, d \in Durations :
           FetchResponds(code, bodyOk, d)
    \/ Wake

\* The two handlers share no state; a behaviour follows one call, of either handler.
NextCalls ==
    \/ ggPc = "idle" /\ NextPost
    \/ tpPc = "idle" /\ NextGemini

SpecCalls == InitPost /\ [][NextCalls]_vars

----------------------------------------------------------------------------
(* Properties of the 'twitter-post' handler *)

Last(seq) == seq[Len(seq)]

\* C1: every response with a status in 400..499 other than 429 ends the call at
\* that attempt: the error is thrown at once, no backoff sleep follows it and no
\* further request is sent, at whichever attempt the status arrives.
C1_ClientErrorEndsCall ==
    \A i \in 1..Len(outcomes) :
        ( /\ outcomes[i].kind = "response"
          /\ outcomes[i].status >= 400
          /\ outcomes[i].status <= 499
          /\ outcomes[i].status # 429 )
        => /\ tpPc = "done"
           /\ result.kind = "throw"
           /\ Len(sent) = i
           /\ Len(sleeps) <= i - 1

\* The first attempt was answered 401 and a second request has been sent.
C1_RetriedAfter401 ==
    /\ Len(outcomes) >= 1
    /\ outcomes[1].kind = "response"
    /\ outcomes[1].status = 401
    /\ Len(sent) >= 2

\* C2: every attempt is sent with a nonce and a timestamp minted for that attempt
\* and with the signature computed from them; no two attempts of a call share a
\* nonce, a timestamp or a signature.
C2_FreshPerAttempt ==
    /\ minted = Len(sent)
    /\ \A i \in 1..Len(sent) :
           sent[i].oauth_signature =
               generateSignature(method, url,
                   OAuthParams(keys.consumerKey, keys.accessToken,
                               sent[i].oauth_timestamp, sent[i].oauth_nonce),
                   keys.consumerSecret, keys.tokenSecret)
    /\ \A i, j \in 1..Len(sent) :
           i < j => /\ sent[i].oauth_nonce # sent[j].oauth_nonce
                    /\ sent[i].oauth_timestamp # sent[j].oauth_timestamp
                    /\ sent[i].oauth_signature # sent[j].oauth_signature

C2_ThreeAttemptsSent == Len(sent) = 3

RetryableStatus(code) == code = 429 \/ (code >= 500 /\ code <= 599)

RECURSIVE Pow2(_)
Pow2(n) == IF n = 0 THEN 1 ELSE 2 * Pow2(n - 1)

\* C3: the sleep before attempt n (n > 1) is 2000 * 2^(n-2) ms, and a call whose
\* endpoint answers k < 3 retryable statuses (5xx or 429) and then a 2xx with a
\* JSON body succeeds at attempt k+1, having slept exactly k times.
C3_BackoffThenSuccess ==
    /\ \A n \in 2..(Len(sleeps) + 1) : sleeps[n - 1] = 2000 * Pow2(n - 2)
    /\ ( /\ Len(outcomes) >= 1
         /\ \A i \in 1..(Len(outcomes) - 1) :
                outcomes[i].kind = "response" /\ RetryableStatus(outcomes[i].status)
         /\ Last(outcomes).kind = "response"
         /\ Last(outcomes).status \in 200..299
         /\ Last(outcomes).bodyOk )
       => /\ tpPc = "done"
          /\ result.kind = "return"
          /\ result.name = "data"
          /\ Len(sent) = Len(outcomes)
          /\ Len(sleeps) = Len(outcomes) - 1

\* 503, 503, 200: three attempts, sleeps of 2000 ms and 4000 ms, success.
C3_TwoRetriesThenOk ==
    /\ Len(outcomes) = 3
    /\ outcomes[1].status = 503
    /\ outcomes[2].status = 503
    /\ outcomes[3].status = 200
    /\ outcomes[3].bodyOk
    /\ result.kind = "return"
    /\ sleeps = <<2000, 4000>>

AllAnswered500 ==
    \A i \in 1..Len(outcomes) : outcomes[i].kind = "response" /\ outcomes[i].status = 500

\* C4: an endpoint that always answers 500 is tried exactly 3 times and the call
\* then ends with an error; nothing is slept or sent after the third failure.
C4_ExhaustedAfterThree ==
    /\ Len(sent) <= 3
    /\ Len(sleeps) <= 2
    /\ (AllAnswered500 /\ Len(outcomes) < 3 /\ Len(sent) >= 1) => tpPc # "done"
    /\ (AllAnswered500 /\ Len(outcomes) = 3)
       => /\ tpPc = "done"
          /\ result.kind = "throw"
          /\ Len(sent) = 3
          /\ Len(sleeps) = 2

C4_Three500s ==
    /\ Len(outcomes) = 3
    /\ AllAnswered500
    /\ tpPc = "done"
    /\ result = Thrown("Twitter API Error", 500)

\* The statuses of a rejected request: 4xx other than 429.
RejectedStatuses == {code \in Statuses : ClientErrorNoRetry(code)}

\* The call has made maxRetries attempts and the last one got a retryable error status.
ExhaustedOnRetryable ==
    /\ tpPc = "done"
    /\ result.kind = "throw"
    /\ Len(outcomes) = maxRetries
    /\ Last(outcomes).kind = "response"
    /\ Last(outcomes).bodyOk
    /\ RetryableStatus(Last(outcomes).status)

\* C19: the error a call ends with after maxRetries retryable failures can be told
\* from the error of a rejected request (a 4xx other than 429): it does not carry
\* the name the rejected-request error carries.
C19_ExhaustedDistinctFromRejected ==
    ExhaustedOnRetryable => result.name \notin {RejectedError(code).name : code \in RejectedStatuses}

\* A call has ended after three attempts answered 503.
C19_Exhausted503 ==
    /\ ExhaustedOnRetryable
    /\ \A i \in 1..Len(outcomes) : outcomes[i].status = 503
    /\ result = ExhaustedError(503)

----------------------------------------------------------------------------
(* The TweetAutomator component: handlers and callbacks *)

\* The values a function created by a render closes over.
Closure == [isAutomated |-> isAutomated, config |-> config, topics |-> topics]

\* clearInterval(id)
ClearInterval(ts, id) == {t \in ts : t.id # id}

\* if (ref.current) clearInterval(ref.current)
ClearIfSet(ts, ref) == IF ref # 0 THEN ClearInterval(ts, ref) ELSE ts

\* The id setInterval returns: one that no armed interval and no ref holds.
FreshId(ts, refs) ==
    LET used == {t.id : t \in ts} \cup refs
    IN  CHOOSE i \in 1..(Cardinality(used) + 1) :
            i \notin used /\ \A j \in 1..(i - 1) : j \in used

SetStatus(c, s) == [c EXCEPT !.reported = Append(@, s)]

\* processCycle up to its first suspension: setStatus('generating') and the
\* synchronous part of generateText. promptTopic is the topic of the generation
\* request in flight, "" when there is none.
BeginCycle(env, topic, trigger) ==
    LET c == [trigger |-> trigger, isAutomated |-> env.isAutomated, config |-> env.config,
              promptTopic |-> "", pc |-> "generating", due |-> NoTime, text |-> "",
              reported |-> <<"generating">>, genRequests |-> 0, postRequests |-> 0,
              posted |-> <<>>, postFailed |-> FALSE, intents |-> <<>>]
    IN  IF c.config.geminiKey = ""
        THEN [SetStatus(c, "error") EXCEPT !.pc = "done"]
        ELSE [c EXCEPT !.genRequests = 1, !.promptTopic = topic]

\* The last two statements of processCycle's timeout callback.
FinishPost(c) ==
    [SetStatus(c, IF c.isAutomated THEN "waiting" ELSE "success") EXCEPT !.pc = "done"]

\* A cycle has moved to c: it stays in flight at position i, or it is over. The
\* status shown is the last one the step has set, if it has set one.
Settle(i, c) ==
    /\ status' = IF c.reported # cycles[i].reported THEN Last(c.reported) ELSE status
    /\ IF c.pc = "done"
       THEN /\ cycles' = SubSeq(cycles, 1, i - 1) \o SubSeq(cycles, i + 1, Len(cycles))
            /\ lastDone' = c
       ELSE /\ cycles' = [cycles EXCEPT ![i] = c]
            /\ lastDone' = lastDone

\* A new processCycle call.
Launch(c) ==
    /\ launched' = launched + 1
    /\ status' = Last(c.reported)
    /\ IF c.pc = "done"
       THEN /\ cycles' = cycles
            /\ lastDone' = c
       ELSE /\ cycles' = Append(cycles, c)
            /\ lastDone' = lastDone

\* The intervals and the two refs, as one value the handlers transform.
TimerState == [timers |-> timers, timerRef |-> timerRef, countdownRef |-> countdownRef]

SetTimerState(st) ==
    /\ timers' = st.timers
    /\ timerRef' = st.timerRef
    /\ countdownRef' = st.countdownRef

Interval(id, kind, due, nextRun, env) ==
    [id |-> id, kind |-> kind, due |-> due, nextRun |-> nextRun, env |-> env]

\* Step 4 of runAutomationCycle: the countdown interval is replaced.
RearmCountdownLeaky(st, nextRun, env) ==
    LET id == FreshId(st.timers, {st.timerRef, st.countdownRef})
    IN  [st EXCEPT !.timers = @ \cup {Interval(id, "countdown", NoTime, nextRun, env)},
                   !.countdownRef = id]

RearmCountdown(st, nextRun, env) ==
    LET cleared == ClearIfSet(st.timers, st.countdownRef)
        id == FreshId(cleared, {st.timerRef, st.countdownRef})
    IN  [st EXCEPT !.timers = cleared \cup {Interval(id, "countdown", NoTime, nextRun, env)},
                   !.countdownRef = id]

\* timerRef.current = setInterval(() => runAutomationCycle(), INTERVAL_MS)
ArmCycleTimer(st, env) ==
    LET id == FreshId(st.timers, {st.timerRef, st.countdownRef})
    IN  [st EXCEPT !.timers = @ \cup {Interval(id, "cycle", now + INTERVAL_MS, NoTime, env)},
                   !.timerRef = id]

\* runAutomationCycle, run by a function that closes over env: steps 1 to 3 ...
runAutomationCycle(env, topic, trigger) ==
    /\ Launch(BeginCycle(env, topic, trigger))
    /\ nextRunTime' = now + INTERVAL_MS
    /\ lastSchedTrigger' = now

\* ... and step 4, on the intervals st.
runAutomationCycleTimers(st, env) == RearmCountdown(st, now + INTERVAL_MS, env)

TopicsOf(tps) == {tps[i] : i \in 1..Len(tps)}

\* topics[0] of an empty list: undefined
NoTopic == "<undefined>"

\* topics[Math.floor(Math.random() * topics.length)]: the values it can take.
Picks(tps) == IF Len(tps) = 0 THEN {NoTopic} ELSE TopicsOf(tps)

\* The Start Autopilot button, rendered while isAutomated is false and enabled
\* while there is a topic: startAutomation of the current render.
startAutomationNoFirstRun ==
    /\ mounted /\ ~isAutomated /\ Len(topics) > 0
    /\ launched < MaxCycles
    /\ isAutomated' = TRUE
    /\ SetTimerState(ArmCycleTimer(TimerState, Closure))
    /\ UNCHANGED <<mounted, config, topics, timeRemaining, now, status, cycles, lastDone,
                   launched, nextRunTime, lastSchedTrigger>>

startAutomation ==
    /\ mounted /\ ~isAutomated /\ Len(topics) > 0
    /\ launched < MaxCycles
    /\ isAutomated' = TRUE
    /\ \E topic \in Picks(topics) : runAutomationCycle(Closure, topic, "start")
    /\ SetTimerState(ArmCycleTimer(runAutomationCycleTimers(TimerState, Closure), Closure))
    /\ UNCHANGED <<mounted, config, topics, timeRemaining, now>>

\* What stopAutomation does to the scheduler's state.
StopViewToggle(v) ==
    [v EXCEPT !.timers = ClearIfSet(ClearIfSet(@, v.timerRef), v.countdownRef),
              !.isAutomated = ~@,
              !.nextRunTime = NoTime,
              !.timeRemaining = EmptyRemaining,
              !.status = "idle"]

StopViewKeepsCountdown(v) ==
    [v EXCEPT !.timers = ClearIfSet(@, v.timerRef),
              !.isAutomated = FALSE,
              !.nextRunTime = NoTime,
              !.timeRemaining = EmptyRemaining,
              !.status = "idle"]

StopView(v) ==
    [v EXCEPT !.timers = ClearIfSet(ClearIfSet(@, v.timerRef), v.countdownRef),
              !.isAutomated = FALSE,
              !.nextRunTime = NoTime,
              !.timeRemaining = EmptyRemaining,
              !.status = "idle"]

SchedView ==
    [timers |-> timers, timerRef |-> timerRef, countdownRef |-> countdownRef,
     isAutomated |-> isAutomated, nextRunTime |-> nextRunTime,
     timeRemaining |-> timeRemaining, status |-> status]

stopAutomationBody ==
    LET v == StopView(SchedView)
    IN  /\ timers' = v.timers
        /\ timerRef' = v.timerRef
        /\ countdownRef' = v.countdownRef
        /\ isAutomated' = v.isAutomated
        /\ nextRunTime' = v.nextRunTime
        /\ timeRemaining' = v.timeRemaining
        /\ status' = v.status

stopAutomationAbortsCycles ==
    /\ mounted /\ isAutomated
    /\ stopAutomationBody
    /\ cycles' = <<>>
    /\ UNCHANGED <<mounted, config, topics, lastDone, launched, lastSchedTrigger, now>>

\* The Stop Autopilot button, rendered while isAutomated is true.
stopAutomation ==
    /\ mounted /\ isAutomated
    /\ stopAutomationBody
    /\ UNCHANGED <<mounted, config, topics, cycles, lastDone, launched, lastSchedTrigger, now>>

UnmountWithoutStop ==
    /\ mounted
    /\ mounted' = FALSE
    /\ UNCHANGED <<config, topics, status, isAutomated, nextRunTime, timeRemaining, timerRef,
                   countdownRef, timers, cycles, lastDone, launched, lastSchedTrigger, now>>

\* The component is unmounted: the mount effect's cleanup calls stopAutomation.
Unmount ==
    /\ mounted
    /\ mounted' = FALSE
    /\ stopAutomationBody
    /\ UNCHANGED <<config, topics, cycles, lastDone, launched, lastSchedTrigger, now>>

\* The callback of the interval armed by startAutomation fires.
TimerFire(t) ==
    /\ t \in timers /\ t.kind = "cycle" /\ t.due = now
    /\ launched < MaxCycles
    /\ \E topic \in Picks(t.env.topics) : runAutomationCycle(t.env, topic, "timer")
    /\ SetTimerState(runAutomationCycleTimers(
           [TimerState EXCEPT !.timers = (@ \ {t}) \cup {[t EXCEPT !.due = @ + INTERVAL_MS]}],
           t.env))
    /\ UNCHANGED <<mounted, config, topics, isAutomated, timeRemaining, now>>

CountdownTickMovesNextRun(t) ==
    /\ t \in timers /\ t.kind = "countdown"
    /\ timeRemaining' = [kind |-> "running", minutes |-> 0, seconds |-> 0]
    /\ nextRunTime' = now
    /\ UNCHANGED <<mounted, config, topics, status, isAutomated, timerRef,
                   countdownRef, timers, cycles, lastDone, launched, lastSchedTrigger, now>>

\* The callback of the countdown interval fires.
CountdownTick(t) ==
    /\ t \in timers /\ t.kind = "countdown"
    /\ LET diff == t.nextRun - now
       IN  timeRemaining' =
               IF diff <= 0
               THEN [kind |-> "running", minutes |-> 0, seconds |-> 0]
               ELSE [kind |-> "left", minutes |-> diff \div 60000,
                     seconds |-> (diff % 60000) \div 1000]
    /\ UNCHANGED <<mounted, config, topics, status, isAutomated, nextRunTime, timerRef,
                   countdownRef, timers, cycles, lastDone, launched, lastSchedTrigger, now>>

\* The Run Once button, enabled while isAutomated is false and there is a topic.
handleManualRunWhileRunning ==
    /\ mounted /\ Len(topics) > 0
    /\ launched < MaxCycles
    /\ \E topic \in Picks(topics) : Launch(BeginCycle(Closure, topic, "manual"))
    /\ UNCHANGED <<mounted, config, topics, isAutomated, nextRunTime, timeRemaining, timerRef,
                   countdownRef, timers, lastSchedTrigger, now>>

handleManualRunAnyTopics ==
    /\ mounted /\ ~isAutomated
    /\ launched < MaxCycles
    /\ \E topic \in Picks(topics) : Launch(BeginCycle(Closure, topic, "manual"))
    /\ UNCHANGED <<mounted, config, topics, isAutomated, nextRunTime, timeRemaining, timerRef,
                   countdownRef, timers, lastSchedTrigger, now>>

handleManualRun ==
    /\ mounted /\ ~isAutomated /\ Len(topics) > 0
    /\ launched < MaxCycles
    /\ \E topic \in Picks(topics) : Launch(BeginCycle(Closure, topic, "manual"))
    /\ UNCHANGED <<mounted, config, topics, isAutomated, nextRunTime, timeRemaining, timerRef,
                   countdownRef, timers, lastSchedTrigger, now>>

\* What the generation request of a cycle produces.
GenOutcomes == {"network_error", "http_error", "no_text", "text"}

Texts == {"hello"}

\* What generateText returns: the trimmed text, or null ("" here) after a
\* rejected fetch, a non-OK response or a response without text.
generateTextResult(outcome, text) == IF outcome = "text" THEN text ELSE ""

\* if (!text) in processCycle
NoTextNever(text) == FALSE

NoText(text) == text = ""

GenRespondsErrorStops(i, outcome, text) ==
    /\ i \in 1..Len(cycles) /\ cycles[i].pc = "generating"
    /\ LET got == generateTextResult(outcome, text)
       IN  /\ Settle(i, IF NoText(got)
                        THEN [SetStatus(cycles[i], "error") EXCEPT !.promptTopic = "",
                                                                    !.pc = "done"]
                        ELSE [cycles[i] EXCEPT !.promptTopic = "", !.text = got,
                                               !.pc = "delay", !.due = now + PostDelayMs])
           /\ timers' = IF NoText(got) THEN {} ELSE timers
    /\ UNCHANGED <<mounted, config, topics, isAutomated, nextRunTime, timeRemaining, timerRef,
                   countdownRef, launched, lastSchedTrigger, now>>

\* The generation fetch of cycle i settles, and generateText and processCycle run on.
GenResponds(i, outcome, text) ==
    /\ i \in 1..Len(cycles) /\ cycles[i].pc = "generating"
    /\ LET got == generateTextResult(outcome, text)
       IN  Settle(i, IF NoText(got)
                     THEN [SetStatus(cycles[i], "error") EXCEPT !.promptTopic = "",
                                                                 !.pc = "done"]
                     ELSE [cycles[i] EXCEPT !.promptTopic = "", !.text = got, !.pc = "delay",
                                            !.due = now + PostDelayMs])
    /\ UNCHANGED <<mounted, config, topics, isAutomated, nextRunTime, timeRemaining, timerRef,
                   countdownRef, timers, launched, lastSchedTrigger, now>>

\* openWebIntent(text), called by cycle c: the text the share intent is opened with.
openWebIntent(c, text) == [c EXCEPT !.intents = Append(@, text)]

\* The credential check at the head of postToTwitter.
MissingTwitterCredentials(cfg) == cfg.twitterConsumerKey = "" \/ cfg.twitterAccessToken = ""

BeginPostOtherText(c) ==
    IF MissingTwitterCredentials(c.config)
    THEN FinishPost([openWebIntent(c, c.text) EXCEPT !.due = NoTime])
    ELSE [SetStatus(c, "posting") EXCEPT !.pc = "posting", !.postRequests = @ + 1,
                                         !.posted = Append(@, ""), !.due = NoTime]

\* postToTwitter(tweetText) up to its fetch, whose body is { text: tweetText };
\* posted holds the texts of the publish requests of the cycle.
BeginPost(c) ==
    IF MissingTwitterCredentials(c.config)
    THEN FinishPost([openWebIntent(c, c.text) EXCEPT !.due = NoTime])
    ELSE [SetStatus(c, "posting") EXCEPT !.pc = "posting", !.postRequests = @ + 1,
                                         !.posted = Append(@, c.text), !.due = NoTime]

\* The 2-second timeout of cycle i fires: postToTwitter is called.
PostDelayElapsed(i) ==
    /\ i \in 1..Len(cycles) /\ cycles[i].pc = "delay" /\ cycles[i].due = now
    /\ Settle(i, BeginPost(cycles[i]))
    /\ UNCHANGED <<mounted, config, topics, isAutomated, nextRunTime, timeRemaining, timerRef,
                   countdownRef, timers, launched, lastSchedTrigger, now>>

PostStatuses == {200, 401, 500}

\* postToTwitter from its fetch on: the catch block, then the end of the timeout callback.
EndPostSilent(c, kind, code, bodyOk) ==
    IF kind = "response" /\ ResponseOk(code) /\ bodyOk
    THEN FinishPost(c)
    ELSE FinishPost([c EXCEPT !.postFailed = TRUE])

EndPost(c, kind, code, bodyOk) ==
    IF kind = "response" /\ ResponseOk(code) /\ bodyOk
    THEN FinishPost(c)
    ELSE FinishPost([(IF c.isAutomated THEN c ELSE openWebIntent(c, c.text))
                         EXCEPT !.postFailed = TRUE])

\* The publish fetch of cycle i settles.
PostResponds(i, kind, code, bodyOk) ==
    /\ i \in 1..Len(cycles) /\ cycles[i].pc = "posting"
    /\ Settle(i, EndPost(cycles[i], kind, code, bodyOk))
    /\ UNCHANGED <<mounted, config, topics, isAutomated, nextRunTime, timeRemaining, timerRef,
                   countdownRef, timers, launched, lastSchedTrigger, now>>

\* The instants at which a timer of the renderer is due.
Dues ==
    {t.due : t \in {u \in timers : u.kind = "cycle"}}
    \cup {cycles[i].due : i \in {j \in 1..Len(cycles) : cycles[j].pc = "delay"}}

\* Time passes, up to the next instant at which a timer is due.
Advance ==
    /\ Dues # {}
    /\ \A d \in Dues : d > now
    /\ now' = CHOOSE d \in Dues : \A e \in Dues : d <= e
    /\ UNCHANGED <<mounted, config, topics, status, isAutomated, nextRunTime, timeRemaining,
                   timerRef, countdownRef, timers, cycles, lastDone, launched, lastSchedTrigger>>

InitSched ==
    /\ EditIdle
    /\ MainIdle
    /\ GeminiIdle
    /\ PostIdle
    /\ SignIdle
    /\ \E cfg \in Configs, tps \in TopicLists : SchedStart(cfg, tps)

NextSched ==
    \/ startAutomation /\ UNCHANGED <<postVars, signVars, editVars, mainVars, genVars>>
    \/ stopAutomation /\ UNCHANGED <<postVars, signVars, editVars, mainVars, genVars>>
    \/ Unmount /\ UNCHANGED <<postVars, signVars, editVars, mainVars, genVars>>
    \/ handleManualRun /\ UNCHANGED <<postVars, signVars, editVars, mainVars, genVars>>
    \/ \E t \in timers : TimerFire(t) /\ UNCHANGED <<postVars, signVars, editVars, mainVars, genVars>>
    \/ \E t \in timers : CountdownTick(t) /\ UNCHANGED <<postVars, signVars, editVars, mainVars, genVars>>
    \/ \E i \in 1..Len(cycles), o \in GenOutcomes, text \in Texts :
           GenResponds(i, o, text) /\ UNCHANGED <<postVars, signVars, editVars, mainVars, genVars>>
    \/ \E i \in 1..Len(cycles) : PostDelayElapsed(i) /\ UNCHANGED <<postVars, signVars, editVars, mainVars, genVars>>
    \/ \E i \in 1..Len(cycles), kind \in {"network", "response"}, code \in PostStatuses,
          bodyOk \in BOOLEAN : PostResponds(i, kind, code, bodyOk) /\ UNCHANGED <<postVars, signVars, editVars, mainVars, genVars>>
    \/ Advance /\ UNCHANGED <<postVars, signVars, editVars, mainVars, genVars>>

SpecSched == InitSched /\ [][NextSched]_vars

----------------------------------------------------------------------------
(* OAuth.generateSignature, called on its own *)

\* The secrets a call is made with: missing, empty, or set.
Secrets == {Undefined, <<>>, <<"c", "s", "!">>, <<"t", "&", "s">>}

\* Further consumer secrets: every character of the alphabet on its own, and a
\* string that holds the five characters percentEncode replaces.
ReservedSample == <<"a", "!", "b", "*", "c", "'", "d", "(", "e", ")", "f">>

EncodeSamples == {<<c>> : c \in Alphabet} \cup {ReservedSample}

Methods == {method, <<"p", "o", "s", "t">>}

\* The entries of a parameter map in another enumeration order.
Reorder(params, order) == [i \in 1..Len(params) |-> params[order[i]]]

Orders == {<<1, 2, 3, 4, 5, 6>>, <<6, 5, 4, 3, 2, 1>>, <<3, 1, 5, 2, 6, 4>>}

ParamMaps ==
    {Reorder(OAuthParams(<<"c", "k">>, <<"a", "t">>, getTimestamp(ms), getNonce(1)), order) :
        ms \in {0, 1000}, order \in Orders}

SignArgSets ==
    [method : {method}, params : ParamMaps, consumerSecret : Secrets, tokenSecret : Secrets]
    \cup [method : Methods, params : ParamMaps, consumerSecret : EncodeSamples,
          tokenSecret : {<<>>, <<"t", "&", "s">>}]

InitSign ==
    /\ EditIdle
    /\ MainIdle
    /\ GeminiIdle
    /\ PostIdle
    /\ SchedIdle
    /\ signPc = "ready"
    /\ signArgs \in SignArgSets
    /\ signResult = NoSignature

Sign ==
    /\ signPc = "ready"
    /\ signResult' = generateSignature(signArgs.method, url, signArgs.params,
                                       signArgs.consumerSecret, signArgs.tokenSecret)
    /\ signPc' = "done"
    /\ UNCHANGED <<signArgs, postVars, schedVars, editVars, mainVars, genVars>>

NextSign == Sign

SpecSign == InitSign /\ [][NextSign]_vars

----------------------------------------------------------------------------
(* The topic manager of the TweetAutomator component *)

\* The limit addTopic tests the length of the list against.
MaxTopics == 10

IsSpace(c) == c = " "

\* String.prototype.trim()
RECURSIVE TrimStart(_)
TrimStart(str) ==
    IF str # <<>> /\ IsSpace(Head(str)) THEN TrimStart(Tail(str)) ELSE str

RECURSIVE TrimEnd(_)
TrimEnd(str) ==
    IF str # <<>> /\ IsSpace(str[Len(str)]) THEN TrimEnd(SubSeq(str, 1, Len(str) - 1)) ELSE str

Trim(str) == TrimEnd(TrimStart(str))

\* What is typed into the input field.
TypedTexts == {<<>>, <<" ">>, <<"A">>, <<" ", "B", " ">>}

\* The saved topic lists found at mount: lists addTopic and removeTopic have saved.
SavedTopicLists == {<<>>, [i \in 1..9 |-> <<"A">>], [i \in 1..10 |-> <<"A">>]}

InitTopics ==
    /\ PostIdle
    /\ SignIdle
    /\ MainIdle
    /\ GeminiIdle
    /\ newTopic = <<>>
    /\ \E tps \in SavedTopicLists : SchedStart(EmptyConfig, tps)

topicFrame ==
    UNCHANGED <<mounted, config, status, isAutomated, nextRunTime, timeRemaining, timerRef,
                countdownRef, timers, cycles, lastDone, launched, lastSchedTrigger, now,
                postVars, signVars, mainVars, genVars>>

\* onChange of the input field, enabled while isAutomated is false.
typeTopic(text) ==
    /\ mounted /\ ~isAutomated
    /\ newTopic' = text
    /\ topics' = topics
    /\ topicFrame

\* addTopic, called by the Enter key of the input field or by the add button.
addTopicUnbounded ==
    /\ mounted /\ ~isAutomated
    /\ IF Trim(newTopic) = <<>>
       THEN UNCHANGED <<topics, newTopic>>
       ELSE /\ topics' = Append(topics, Trim(newTopic))
            /\ newTopic' = <<>>
    /\ topicFrame

addTopic ==
    /\ mounted /\ ~isAutomated
    /\ IF Trim(newTopic) = <<>>
       THEN UNCHANGED <<topics, newTopic>>
       ELSE IF Len(topics) >= MaxTopics
       THEN UNCHANGED <<topics, newTopic>>
       ELSE /\ topics' = Append(topics, Trim(newTopic))
            /\ newTopic' = <<>>
    /\ topicFrame

\* The remove button of the topic at position index, rendered while isAutomated is false.
removeTopic(index) ==
    /\ mounted /\ ~isAutomated
    /\ index \in 1..Len(topics)
    /\ topics' = SubSeq(topics, 1, index - 1) \o SubSeq(topics, index + 1, Len(topics))
    /\ newTopic' = newTopic
    /\ topicFrame

NextTopics ==
    \/ \E text \in TypedTexts : typeTopic(text)
    \/ addTopic
    \/ \E index \in 1..MaxTopics : removeTopic(index)

SpecTopics == InitTopics /\ [][NextTopics]_vars

----------------------------------------------------------------------------
(* The settings dialog: the configuration is replaced while the component runs *)

\* The configurations the settings dialog is saved with.
EditedConfigs == { ConfigOf("g", "ck", "cs", "at", "ts"),
                   ConfigOf("g", "ck2", "cs", "at", "ts") }

\* saveConfig(newConfig): setConfig, localStorage, the dialog is closed. The
\* settings button is enabled whether or not the scheduler runs.
saveConfig(newConfig) ==
    /\ mounted
    /\ config' = newConfig
    /\ UNCHANGED <<mounted, topics, status, isAutomated, nextRunTime, timeRemaining,
                   timerRef, countdownRef, timers, cycles, lastDone, launched,
                   lastSchedTrigger, now>>
    /\ UNCHANGED <<postVars, signVars, editVars, mainVars, genVars>>

InitConfig ==
    /\ EditIdle
    /\ MainIdle
    /\ GeminiIdle
    /\ PostIdle
    /\ SignIdle
    /\ SchedStart(ConfigOf("g", "ck", "cs", "at", "ts"), <<"A", "B">>)

NextConfig ==
    \/ NextSched
    \/ \E newConfig \in EditedConfigs : saveConfig(newConfig)

SpecConfig == InitConfig /\ [][NextConfig]_vars

----------------------------------------------------------------------------
(* The main process: secure storage, window, tray and quit *)

\* secureStorage.set(key, value) on the store st
SecureSetAlwaysEncrypts(st, key, value, available) ==
    [st EXCEPT ![key] = IF value = "" THEN Absent ELSE Encrypted(value)]

SecureSet(st, key, value, available) ==
    [st EXCEPT ![key] = IF value = "" THEN Absent
                        ELSE IF available THEN Encrypted(value)
                        ELSE Clear(value)]

\* secureStorage.get(key): decryptString throws on what is not a ciphertext, and
\* without encryption the stored string is returned as it is.
SecureGet(st, key, available) ==
    IF st[key].form = "absent" THEN Clear("")
    ELSE IF available
    THEN IF st[key].form = "encrypted" THEN Clear(st[key].value) ELSE Clear("")
    ELSE st[key]

\* The configurations the renderer sends to 'store-save-config', and the old
\* configurations found at startup.
MainConfigs == {EmptyConfig,
                ConfigOf("g", "", "", "", ""),
                ConfigOf("g", "ck", "cs", "at", "ts")}

\* The five secureStorage.set calls of 'store-save-config', in their order.
SaveAll(st, cfg, available) ==
    SecureSet(SecureSet(SecureSet(SecureSet(SecureSet(st,
        "geminiKey", cfg.geminiKey, available),
        "twitterConsumerKey", cfg.twitterConsumerKey, available),
        "twitterConsumerSecret", cfg.twitterConsumerSecret, available),
        "twitterAccessToken", cfg.twitterAccessToken, available),
        "twitterTokenSecret", cfg.twitterTokenSecret, available)

\* The migration in app.whenReady(): it runs when the old store holds a Gemini
\* key or a consumer key, and sets the keys the old configuration holds.
MigratedStore(old, available) ==
    IF old.geminiKey # "" \/ old.twitterConsumerKey # ""
    THEN SaveAll(EmptyStore, old, available)
    ELSE EmptyStore

\* The application is ready: migration done, tray and window created, window shown.
InitMain ==
    /\ GeminiIdle
    /\ PostIdle
    /\ SchedIdle
    /\ SignIdle
    /\ EditIdle
    /\ encryptionAvailable \in BOOLEAN
    /\ \E old \in MainConfigs : store = MigratedStore(old, encryptionAvailable)
    /\ loadedConfig = NothingLoaded
    /\ appRunning = TRUE
    /\ mainWindow = TRUE
    /\ windowVisible = TRUE
    /\ isQuitting = FALSE
    /\ hasShownTrayNotice = FALSE
    /\ quitRequested = FALSE

mainFrame == UNCHANGED <<postVars, schedVars, signVars, editVars, genVars>>

\* ipcMain.handle('store-save-config')
StoreSaveConfig(cfg) ==
    /\ appRunning /\ mainWindow
    /\ store' = SaveAll(store, cfg, encryptionAvailable)
    /\ UNCHANGED <<encryptionAvailable, loadedConfig, appRunning, mainWindow, windowVisible,
                   isQuitting, hasShownTrayNotice, quitRequested>>
    /\ mainFrame

\* ipcMain.handle('store-get-config')
StoreGetConfig ==
    /\ appRunning /\ mainWindow
    /\ loadedConfig' = [k \in StoreKeys |-> SecureGet(store, k, encryptionAvailable)]
    /\ UNCHANGED <<store, encryptionAvailable, appRunning, mainWindow, windowVisible,
                   isQuitting, hasShownTrayNotice, quitRequested>>
    /\ mainFrame

\* The operating system's key store becomes available or unavailable.
EncryptionAvailabilityChanges ==
    /\ appRunning
    /\ encryptionAvailable' = ~encryptionAvailable
    /\ UNCHANGED <<store, loadedConfig, appRunning, mainWindow, windowVisible,
                   isQuitting, hasShownTrayNotice, quitRequested>>
    /\ mainFrame

\* if (!app.isQuitting) of the window's 'close' handler
CloseVetoedNever(quitting) == FALSE

CloseVetoed(quitting) == ~quitting

\* The window and the process, as the 'close' event of the main window leaves
\* them: hidden by the handler, or closed, after which 'closed' and
\* 'window-all-closed' run. explicitQuit says that app.quit() has been called.
AfterClose(quitting, noticed, visible, explicitQuit) ==
    IF CloseVetoed(quitting)
    THEN [appRunning |-> TRUE, mainWindow |-> TRUE, windowVisible |-> FALSE,
          hasShownTrayNotice |-> TRUE]
    ELSE [appRunning |-> ~(explicitQuit \/ quitting), mainWindow |-> FALSE,
          windowVisible |-> FALSE, hasShownTrayNotice |-> noticed]

SetWindow(w) ==
    /\ appRunning' = w.appRunning
    /\ mainWindow' = w.mainWindow
    /\ windowVisible' = w.windowVisible
    /\ hasShownTrayNotice' = w.hasShownTrayNotice

\* The X of the main window, or Window > Close.
WindowClose ==
    /\ appRunning /\ mainWindow /\ windowVisible
    /\ SetWindow(AfterClose(isQuitting, hasShownTrayNotice, windowVisible, FALSE))
    /\ UNCHANGED <<store, encryptionAvailable, loadedConfig, isQuitting, quitRequested>>
    /\ mainFrame

\* app.quit(): every window gets 'close'; the quit goes on only if all of them close.
AppQuit(quitting) ==
    /\ quitRequested' = TRUE
    /\ IF mainWindow
       THEN SetWindow(AfterClose(quitting, hasShownTrayNotice, windowVisible, TRUE))
       ELSE /\ appRunning' = FALSE
            /\ UNCHANGED <<mainWindow, windowVisible, hasShownTrayNotice>>

\* Quit of the tray menu
TrayQuit ==
    /\ appRunning
    /\ isQuitting' = TRUE
    /\ AppQuit(TRUE)
    /\ UNCHANGED <<store, encryptionAvailable, loadedConfig>>
    /\ mainFrame

\* File > Quit of the application menu
MenuQuit ==
    /\ appRunning /\ mainWindow /\ windowVisible
    /\ AppQuit(isQuitting)
    /\ UNCHANGED <<store, encryptionAvailable, loadedConfig, isQuitting>>
    /\ mainFrame

\* process.on('uncaughtException'): app.quit() one second later
UncaughtException ==
    /\ appRunning
    /\ AppQuit(isQuitting)
    /\ UNCHANGED <<store, encryptionAvailable, loadedConfig, isQuitting>>
    /\ mainFrame

\* Show App of the tray menu, or app.on('activate') with a window
TrayShow ==
    /\ appRunning /\ mainWindow
    /\ windowVisible' = TRUE
    /\ UNCHANGED <<store, encryptionAvailable, loadedConfig, appRunning, mainWindow,
                   isQuitting, hasShownTrayNotice, quitRequested>>
    /\ mainFrame

\* tray.on('click')
TrayClick ==
    /\ appRunning /\ mainWindow
    /\ windowVisible' = ~windowVisible
    /\ UNCHANGED <<store, encryptionAvailable, loadedConfig, appRunning, mainWindow,
                   isQuitting, hasShownTrayNotice, quitRequested>>
    /\ mainFrame

NextMain ==
    \/ \E cfg \in MainConfigs : StoreSaveConfig(cfg)
    \/ StoreGetConfig
    \/ EncryptionAvailabilityChanges
    \/ WindowClose
    \/ TrayQuit
    \/ MenuQuit
    \/ UncaughtException
    \/ TrayShow
    \/ TrayClick

SpecMain == InitMain /\ [][NextMain]_vars

Init == InitPost \/ InitSched \/ InitSign \/ InitTopics \/ InitConfig \/ InitMain \/ InitGemini

Next == NextPost \/ NextSign \/ NextTopics \/ NextConfig \/ NextMain \/ NextGemini

Spec == Init /\ [][Next]_vars

----------------------------------------------------------------------------
(* Properties of the scheduler *)

CycleTimers == {t \in timers : t.kind = "cycle"}

CountdownTimers == {t \in timers : t.kind = "countdown"}

C6_StoppedHasNoTimers ==
    ~isAutomated => /\ timers = {}
                    /\ nextRunTime = NoTime
                    /\ timeRemaining = EmptyRemaining

\* The scheduler has run and has been stopped while a cycle it started is in flight.
C6_StoppedAfterRunning ==
    /\ ~isAutomated
    /\ lastSchedTrigger # NoTime
    /\ \E i \in 1..Len(cycles) : cycles[i].trigger \in {"start", "timer"}

\* C7: stop is idempotent and total: after any call of stopAutomation (the Stop
\* button or the unmount cleanup) a further call would leave the running flag,
\* the armed timers, the next-run time and the status as they are, and a call
\* made when the scheduler was never started leaves flag, timers and next-run
\* time as they were.
C7_StopIdempotent ==
    [][ ((isAutomated /\ ~isAutomated') \/ (mounted /\ ~mounted'))
        => /\ StopView(SchedView') = SchedView'
           /\ ~isAutomated'
           /\ lastSchedTrigger = NoTime
              => /\ isAutomated' = isAutomated
                 /\ timers' = timers
                 /\ nextRunTime' = nextRunTime
                 /\ timeRemaining' = timeRemaining ]_vars

\* stopAutomation has been called (by the unmount cleanup) with the scheduler never started.
C7_StoppedNeverStarted ==
    /\ ~mounted
    /\ lastSchedTrigger = NoTime

\* C8: start with a non-empty topic list sets the scheduler running and runs a
\* cycle at once; while the scheduler runs, exactly one cycle timer is armed, due
\* 40 minutes after the last scheduler-triggered cycle, which is also the next-run
\* time; a firing happens at that instant, runs a cycle and moves the next-run
\* time to now + 40 minutes.
C8_ImmediateThenEveryInterval ==
    /\ [](isAutomated =>
            /\ Cardinality(CycleTimers) = 1
            /\ \A t \in CycleTimers : t.due = lastSchedTrigger + 2400000 /\ now <= t.due
            /\ nextRunTime = lastSchedTrigger + 2400000)
    /\ [][ (~isAutomated /\ isAutomated')
           => /\ Len(topics) > 0
              /\ launched' = launched + 1
              /\ lastSchedTrigger' = now ]_vars
    /\ [][ (isAutomated /\ lastSchedTrigger' # lastSchedTrigger)
           => /\ isAutomated'
              /\ now = lastSchedTrigger + 2400000
              /\ launched' = launched + 1
              /\ lastSchedTrigger' = now
              /\ nextRunTime' = now + 2400000 ]_vars

\* The cycle timer has fired once, 40 minutes after the start at time 0.
C8_SecondCycleByTimer ==
    /\ isAutomated
    /\ lastSchedTrigger = 2400000
    /\ launched = 2

\* C9: a cycle whose publish step failed ends with the status error, never with
\* success or waiting.
C9_FailedPublishReportsError ==
    (lastDone.pc = "done" /\ lastDone.postFailed) => Last(lastDone.reported) = "error"

\* A manual cycle whose publish request failed has completed.
C9_ManualPublishFailed ==
    /\ lastDone.pc = "done"
    /\ lastDone.trigger = "manual"
    /\ lastDone.postFailed

\* C10: a scheduler-triggered cycle (the first run of start, or a timer firing)
\* that runs to its end reports waiting and never success; a manual cycle that
\* runs to its end reports success or error.
C10_ScheduledCycleReportsWaiting ==
    (lastDone.pc = "done" /\ lastDone.text # "")
    => /\ lastDone.trigger \in {"start", "timer"} => Last(lastDone.reported) = "waiting"
       /\ lastDone.trigger = "manual" => Last(lastDone.reported) \in {"success", "error"}

\* A cycle triggered by the timer has published and completed.
C10_TimerCyclePublished ==
    /\ lastDone.pc = "done"
    /\ lastDone.trigger = "timer"
    /\ lastDone.postRequests = 1
    /\ ~lastDone.postFailed

----------------------------------------------------------------------------
(* Properties of the cycle *)

\* The cycles in flight and the cycle that ended last.
AllCycles == {cycles[i] : i \in 1..Len(cycles)} \cup {lastDone}

ScheduledTriggers == {"start", "timer"}

\* C11: no cycle triggered by the scheduler opens the share intent, neither after
\* a failed publish request nor when the publish credentials are missing.
C11_NoIntentUnderScheduler ==
    \A c \in AllCycles : c.trigger \in ScheduledTriggers => c.intents = <<>>

\* A cycle started by the timer has opened the share intent after its publish request failed.
C11_TimerCycleOpenedIntent ==
    /\ lastDone.trigger = "timer"
    /\ lastDone.postFailed
    /\ lastDone.intents # <<>>

\* C12: in a manual cycle a failed publish request opens the share intent exactly
\* once, with the text the cycle generated; the intent is opened at most once per
\* cycle and only after a failure or for missing credentials.
C12_ManualFailureOpensIntentOnce ==
    \A c \in AllCycles :
        c.trigger = "manual"
        => /\ (c.pc = "done" /\ c.postFailed) => (c.text # "" /\ c.intents = <<c.text>>)
           /\ Len(c.intents) <= 1
           /\ c.intents # <<>> => (c.postFailed \/ MissingTwitterCredentials(c.config))

\* A manual cycle's publish request has failed and the intent was opened with the text.
C12_ManualFailedIntentOpened ==
    /\ lastDone.pc = "done"
    /\ lastDone.trigger = "manual"
    /\ lastDone.postRequests = 1
    /\ lastDone.postFailed
    /\ lastDone.intents = <<"hello">>

\* The status sequences idle -> generating -> posting -> (waiting | success | error)
\* allows, an error ending the cycle from the generating status included.
AllowedRuns ==
    {<<"generating", "posting", t>> : t \in {"waiting", "success", "error"}}
    \cup {<<"generating", "error">>}

\* C13: a manual cycle whose generation returns text and whose publish succeeds
\* reports generating, posting, success, for a topic of the list; every completed
\* cycle reports generating, posting and a terminal status in that order, none
\* skipped.
C13_StatusOrder ==
    /\ lastDone.pc = "done" => lastDone.reported \in AllowedRuns
    /\ ( /\ lastDone.pc = "done" /\ lastDone.trigger = "manual"
         /\ lastDone.postRequests = 1 /\ ~lastDone.postFailed )
       => lastDone.reported = <<"generating", "posting", "success">>
    /\ \A c \in AllCycles :
           (c.trigger = "manual" /\ c.pc = "generating") => c.promptTopic \in TopicsOf(topics)

\* A cycle has ended with success without ever reporting posting.
C13_SuccessWithoutPosting ==
    /\ lastDone.pc = "done"
    /\ lastDone.reported = <<"generating", "success">>

\* C14: a cycle whose generation step yields no usable text reports error, and
\* neither signs nor sends a publish request nor opens the intent, whatever
\* triggered it; only a cycle holding text reaches the publish step.
C14_NoTextNoPublish ==
    \A c \in AllCycles :
        /\ (c.pc = "done" /\ c.text = "")
           => (Last(c.reported) = "error" /\ c.postRequests = 0 /\ c.intents = <<>>)
        /\ (c.pc \in {"delay", "posting"} \/ c.postRequests > 0) => c.text # ""

\* A cycle started by the timer sent its generation request, got no text and ended.
C14_TimerCycleWithoutText ==
    /\ lastDone.pc = "done"
    /\ lastDone.trigger = "timer"
    /\ lastDone.genRequests = 1
    /\ lastDone.text = ""

\* C15: a publish request is signed and sent only by a cycle whose configuration
\* holds all four credentials.
C15_PublishNeedsFourCredentials ==
    \A c \in AllCycles :
        c.postRequests > 0
        => /\ c.config.twitterConsumerKey # ""
           /\ c.config.twitterConsumerSecret # ""
           /\ c.config.twitterAccessToken # ""
           /\ c.config.twitterTokenSecret # ""

\* A publish request was sent by a cycle configured with an empty consumer secret.
C15_SentWithEmptySecret ==
    \E c \in AllCycles : c.postRequests = 1 /\ c.config.twitterConsumerSecret = ""

\* C16: a cycle started with a publish credential missing issues no network
\* request, the generation request included.
C16_MissingCredentialsNoRequest ==
    \A c \in AllCycles :
        ( \/ c.config.twitterConsumerKey = ""
          \/ c.config.twitterConsumerSecret = ""
          \/ c.config.twitterAccessToken = ""
          \/ c.config.twitterTokenSecret = "" )
        => (c.genRequests = 0 /\ c.postRequests = 0)

\* A cycle configured without a consumer key has sent its generation request.
C16_GeneratedWithoutConsumerKey ==
    \E c \in AllCycles : c.config.twitterConsumerKey = "" /\ c.genRequests = 1

\* The step starts a cycle by the Run Once button.
ManualRunStep ==
    /\ launched' = launched + 1
    /\ (IF Len(cycles') > Len(cycles) THEN Last(cycles') ELSE lastDone').trigger = "manual"

\* C17: a manual run starts a cycle only while the scheduler is stopped; it arms
\* no interval and leaves the running flag, the two refs and the next-run time
\* as they are.
C17_ManualRunFrame ==
    [][ ManualRunStep
        => /\ ~isAutomated
           /\ isAutomated' = isAutomated
           /\ timers' = timers
           /\ timerRef' = timerRef
           /\ countdownRef' = countdownRef
           /\ nextRunTime' = nextRunTime
           /\ lastSchedTrigger' = lastSchedTrigger ]_vars

\* A manual cycle is in flight, the scheduler is stopped and no interval is armed.
C17_ManualCycleInFlight ==
    /\ \E i \in 1..Len(cycles) : cycles[i].trigger = "manual"
    /\ ~isAutomated
    /\ timers = {}
    /\ nextRunTime = NoTime

\* C18: with an empty topic list nothing starts: the scheduler stays stopped, no
\* interval is armed and no cycle runs, by start or by a manual run; the topic of
\* every generation request is a topic of the list, never undefined.
C18_EmptyListStartsNothing ==
    /\ Len(topics) = 0
       => /\ ~isAutomated
          /\ timers = {}
          /\ launched = 0
          /\ cycles = <<>>
          /\ lastDone = NoCycle
    /\ \A c \in AllCycles :
           /\ c.promptTopic # NoTopic
           /\ c.pc = "generating" => c.promptTopic \in TopicsOf(topics)

\* A cycle started by the timer is generating for the topic B of the list.
C18_TimerCycleWithTopic ==
    \E i \in 1..Len(cycles) :
        /\ cycles[i].trigger = "timer"
        /\ cycles[i].pc = "generating"
        /\ cycles[i].promptTopic = "B"

----------------------------------------------------------------------------
(* Properties of OAuth.generateSignature *)

\* C20: the signing key is percentEncode(consumerSecret), '&', percentEncode(tokenSecret)
\* with an undefined secret taken as the empty string: an undefined secret gives
\* the key an empty one gives, and the '&' is always there.
C20_UndefinedSecretIsEmpty ==
    signPc = "done"
    => signResult.hmacKey =
           percentEncode(StringOfBlank(signArgs.consumerSecret)) \o <<"&">>
           \o percentEncode(StringOfBlank(signArgs.tokenSecret))

\* A signature has been computed with an undefined token secret.
C20_SignedWithUndefinedSecret ==
    /\ signPc = "done"
    /\ signArgs.tokenSecret = Undefined
    /\ signArgs.consumerSecret = <<"c", "s", "!">>

\* The keys of the OAuth parameters in ascending order.
AscendingKeys ==
    LET named == OAuthParams(<<>>, <<>>, <<>>, <<>>)
    IN  [i \in 1..6 |-> named[<<1, 5, 3, 4, 2, 6>>[i]][1]]

\* key=percentEncode(value) of the keys in ascending order, joined by '&'.
ExpectedParamString(params) ==
    Flatten([i \in 1..6 |->
        (IF i > 1 THEN <<"&">> ELSE <<>>) \o AscendingKeys[i] \o <<"=">>
        \o percentEncode(Lookup(params, AscendingKeys[i]))])

\* C21: the signature does not depend on the enumeration order of the parameter
\* map: every reordering of the entries gives the signature the call returned, and
\* the signed parameter string is key=percentEncode(value) joined by '&' in
\* ascending key order.
C21_OrderIndependent ==
    signPc = "done"
    => /\ \A order \in Orders :
              generateSignature(signArgs.method, url, Reorder(signArgs.params, order),
                                signArgs.consumerSecret, signArgs.tokenSecret) = signResult
       /\ signResult.hmacMsg =
              toUpperCase(signArgs.method) \o <<"&">> \o percentEncode(url) \o <<"&">>
              \o percentEncode(ExpectedParamString(signArgs.params))

\* A map enumerated in descending key position has been signed.
C21_SignedReversedMap ==
    /\ signPc = "done"
    /\ ObjectKeys(signArgs.params) =
           ObjectKeys(Reorder(OAuthParams(<<>>, <<>>, <<>>, <<>>), <<6, 5, 4, 3, 2, 1>>))

Unreserved(c) == IsAlnum(c) \/ c \in {"-", ".", "_", "~"}

\* %XX of a character, XX its code in upper-case hexadecimal.
PercentHex(c) ==
    <<"%", HexDigits[(CharCode(c) \div 16) + 1], HexDigits[(CharCode(c) % 16) + 1]>>

\* What percentEncode put in front of the '&' of the signing key.
EncodedConsumerSecret ==
    SubSeq(signResult.hmacKey, 1,
           Len(signResult.hmacKey) - 1 - Len(percentEncode(signArgs.tokenSecret)))

\* C22: percentEncode leaves letters, digits and - . _ ~ as they are and writes
\* every other character as %XX, the characters ! * ' ( ) included:
\* a!b*c'd(e)f becomes a%21b%2Ac%27d%28e%29f.
C22_PercentEncode ==
    (signPc = "done" /\ signArgs.consumerSecret # Undefined)
    => /\ EncodedConsumerSecret =
              Flatten([i \in 1..Len(signArgs.consumerSecret) |->
                  IF Unreserved(signArgs.consumerSecret[i])
                  THEN <<signArgs.consumerSecret[i]>>
                  ELSE PercentHex(signArgs.consumerSecret[i])])
       /\ signArgs.consumerSecret = ReservedSample
          => EncodedConsumerSecret =
                 <<"a", "%", "2", "1", "b", "%", "2", "A", "c", "%", "2", "7",
                   "d", "%", "2", "8", "e", "%", "2", "9", "f">>

\* The string with the five replaced characters has been encoded into a signing key.
C22_EncodedReservedSample ==
    /\ signPc = "done"
    /\ signArgs.consumerSecret = ReservedSample

----------------------------------------------------------------------------
(* Properties of the topic manager *)

\* C23: the topic list never holds more than 10 topics, after loading and after
\* any sequence of addTopic and removeTopic; the list grows only by an addTopic
\* below length 10 with a name that is not blank, which appends the trimmed name.
C23_AtMostTenTopics ==
    /\ [](Len(topics) <= 10)
    /\ [][ Len(topics') > Len(topics)
           => /\ Len(topics) < 10
              /\ Trim(newTopic) # <<>>
              /\ topics' = Append(topics, Trim(newTopic))
              /\ newTopic' = <<>> ]_vars
    /\ [][ (Len(topics) = 10 \/ Trim(newTopic) = <<>>) => Len(topics') <= Len(topics) ]_vars

\* The list is full and a name is in the input field: an addTopic here is refused.
C23_FullListWithName ==
    /\ Len(topics) = 10
    /\ newTopic = <<" ", "B", " ">>
    /\ \E i \in 1..10 : topics[i] = <<"B">>

----------------------------------------------------------------------------
(* Properties of the main process *)

\* C24: no key is in the store in plain text: whatever is stored under a
\* credential key is the encrypted form of the key, whether or not the operating
\* system's encryption was available when it was saved.
C24_NoPlainTextKey ==
    \A k \in StoreKeys : store[k].form \in {"absent", "encrypted"}

\* The Gemini key is in the store as it was typed.
C24_PlainGeminiKeyStored ==
    store["geminiKey"] = Clear("g")

\* C25: closing the main window hides it and the application keeps running with
\* its window; the application is terminated only once Quit of the tray menu has
\* been requested, and that Quit terminates it, leaving no window.
C25_CloseHidesQuitTerminates ==
    /\ [](appRunning => mainWindow)
    /\ [](~appRunning => (isQuitting /\ ~mainWindow /\ ~windowVisible))
    /\ [][ (~isQuitting /\ isQuitting') => ~appRunning' ]_vars
    /\ [][ (~hasShownTrayNotice /\ hasShownTrayNotice')
           => (~windowVisible' /\ appRunning' /\ mainWindow') ]_vars

\* The window has been closed and is hidden; the application runs.
C25_HiddenAfterClose ==
    /\ appRunning
    /\ mainWindow
    /\ ~windowVisible
    /\ hasShownTrayNotice
    /\ ~isQuitting

----------------------------------------------------------------------------
(* Further properties of the publish call *)

\* C26: once an attempt has received a 2xx response no further publish request
\* is sent by the call: the request answered with a 2xx is the last one sent,
\* also when the body of that response cannot be parsed.
C26_NoRequestAfter2xx ==
    \A i \in 1..Len(outcomes) :
        (outcomes[i].kind = "response" /\ ResponseOk(outcomes[i].status))
            => Len(sent) = i

\* A second request has been sent after a 200 whose body could not be parsed.
C26_ResentAfter200 ==
    /\ Len(outcomes) >= 1
    /\ outcomes[1].kind = "response"
    /\ outcomes[1].status = 200
    /\ ~outcomes[1].bodyOk
    /\ Len(sent) >= 2

----------------------------------------------------------------------------
(* Stopping while a cycle is in flight *)

\* A step of a cycle in flight: no cycle is started and the cycles change.
CycleStep == launched' = launched /\ <<cycles, lastDone>> # <<cycles', lastDone'>>

\* The scheduler is stopped by this step.
StopStep == isAutomated /\ ~isAutomated'

\* C27: stopping while a cycle is in flight cancels the intervals only: the cycle
\* stays in flight and goes on to its end, and no step of a cycle arms or clears
\* an interval, sets the next-run time or sets isAutomated.
C27_StopLeavesCycleInFlight ==
    /\ [][ StopStep => (cycles' = cycles /\ lastDone' = lastDone /\ timers' = {}) ]_vars
    /\ [][ CycleStep => UNCHANGED <<timers, timerRef, countdownRef, nextRunTime,
                                    timeRemaining, isAutomated>> ]_vars

\* The cycle started by Start Autopilot has published after the scheduler was
\* stopped: nothing is armed and no next run is set.
C27_CompletedAfterStop ==
    /\ mounted
    /\ ~isAutomated
    /\ launched = 1
    /\ cycles = <<>>
    /\ lastDone.trigger = "start"
    /\ lastDone.postRequests = 1
    /\ status = "success"
    /\ timers = {}
    /\ nextRunTime = NoTime

\* C28: a cycle of the scheduler that had not issued its publish request when
\* the scheduler was stopped does not issue it afterwards: while the scheduler is
\* stopped no scheduled cycle goes from generating or from the 2-second delay to
\* a publish request.
C28_NoPublishAfterStop ==
    [][ \A i \in 1..Len(cycles) :
            ( /\ mounted
              /\ ~isAutomated
              /\ cycles[i].trigger \in ScheduledTriggers
              /\ Len(cycles') = Len(cycles) )
            => cycles'[i].postRequests = cycles[i].postRequests ]_vars

\* The scheduler is stopped and the cycle it started is publishing, the only
\* step taken since the stop being the end of the cycle's 2-second delay.
C28_PublishingAfterStop ==
    /\ mounted
    /\ ~isAutomated
    /\ launched = 1
    /\ Len(cycles) = 1
    /\ cycles[1].trigger = "start"
    /\ cycles[1].pc = "posting"
    /\ cycles[1].reported = <<"generating", "posting">>
    /\ status = "posting"
    /\ nextRunTime = NoTime

\* C29: once the scheduler is stopped and the status is idle, the status stays
\* idle until a cycle is started by Start Autopilot or Run Once: no step of a
\* cycle in flight changes it.
C29_IdleStaysIdle ==
    [][ (mounted /\ ~isAutomated /\ status = "idle" /\ launched' = launched)
        => status' = "idle" ]_vars

\* The cycle in flight at the stop has ended with an error after the stop.
C29_ErrorAfterStop ==
    /\ mounted
    /\ ~isAutomated
    /\ launched = 1
    /\ cycles = <<>>
    /\ lastDone.trigger = "start"
    /\ lastDone.genRequests = 1
    /\ lastDone.postRequests = 0
    /\ lastDone.text = ""
    /\ status = "error"
    /\ nextRunTime = NoTime

----------------------------------------------------------------------------
(* The configuration is changed while the scheduler runs *)

\* The cycle started by the step, when the step starts one.
StartedCycle == IF Len(cycles') > Len(cycles) THEN Last(cycles') ELSE lastDone'

\* C30: every cycle of the scheduler runs with the configuration in force when
\* it starts: a cycle started by the interval after the configuration was
\* replaced uses the new values.
C30_ScheduledCycleUsesCurrentConfig ==
    [][ (launched' = launched + 1 /\ StartedCycle.trigger \in ScheduledTriggers)
        => StartedCycle.config = config ]_vars

\* A cycle started by the interval is publishing with the consumer key that
\* the settings dialog has replaced.
C30_TimerCycleWithReplacedKey ==
    /\ isAutomated
    /\ config.twitterConsumerKey = "ck2"
    /\ \E i \in 1..Len(cycles) :
           /\ cycles[i].trigger = "timer"
           /\ cycles[i].pc = "posting"
           /\ cycles[i].config.twitterConsumerKey = "ck"

----------------------------------------------------------------------------
(* Errors inside a scheduled cycle *)

\* A step of a cycle in flight that ends the cycle after a failure.
FailureStep ==
    /\ CycleStep
    /\ lastDone' # lastDone
    /\ (Last(lastDone'.reported) = "error" \/ lastDone'.postFailed)

\* The last cycle that ended was started by the scheduler and failed.
ScheduledCycleFailed ==
    /\ lastDone.trigger \in ScheduledTriggers
    /\ (Last(lastDone.reported) = "error" \/ lastDone.postFailed)

\* C31: a failure inside a cycle stays inside it: the step at which a cycle fails
\* leaves the intervals, the running flag and the next-run time as they are, and
\* while the scheduler runs after a failed scheduled cycle its repeating timer is
\* armed for 40 minutes after the last scheduled trigger.
C31_ErrorContainedInCycle ==
    /\ [][ FailureStep => UNCHANGED <<timers, timerRef, countdownRef, isAutomated,
                                      nextRunTime>> ]_vars
    /\ []((isAutomated /\ ScheduledCycleFailed)
            => \E t \in CycleTimers : /\ t.id = timerRef
                                      /\ t.due = lastSchedTrigger + INTERVAL_MS)

\* The cycle run at the start failed at its generation; 40 minutes later the
\* interval has fired and its cycle is generating.
C31_NextCycleAfterFailure ==
    /\ isAutomated
    /\ launched = 2
    /\ lastDone.trigger = "start"
    /\ lastDone.reported = <<"generating", "error">>
    /\ Len(cycles) = 1
    /\ cycles[1].trigger = "timer"
    /\ status = "generating"
    /\ lastSchedTrigger = INTERVAL_MS

----------------------------------------------------------------------------
(* Transport failures and the order of the attempts of a publish call *)

TransportFailures == {"network", "timeout"}

\* C32: an attempt that fails by a transport error or by the 30-second timeout
\* is retried while attempts remain: the handler sleeps the current delay
\* (2000 ms doubled per earlier sleep) and the call does not end before a
\* further request is sent; at the last attempt the error is thrown.
C32_TransportFailureRetried ==
    \A i \in 1..Len(outcomes) :
        outcomes[i].kind \in TransportFailures
        => IF i < maxRetries
           THEN /\ Len(sleeps) >= i
                /\ sleeps[i] = InitialDelayMs * Pow2(i - 1)
                /\ (tpPc = "done" => Len(sent) > i)
           ELSE /\ tpPc = "done"
                /\ result \in {Thrown("TimeoutError", 0), Thrown("TypeError", 0)}
                /\ Len(sent) = maxRetries
                /\ Len(sleeps) = maxRetries - 1

\* A timeout, a transport error and a timeout: the call ends with the timeout's error.
C32_ThreeTransportFailures ==
    /\ Len(outcomes) = 3
    /\ outcomes[1].kind = "timeout"
    /\ outcomes[2].kind = "network"
    /\ outcomes[3].kind = "timeout"
    /\ sleeps = <<2000, 4000>>
    /\ tpPc = "done"
    /\ result = Thrown("TimeoutError", 0)

\* C33: the attempts of a call are sequential: at most one request is without
\* its outcome, and a request is sent only when every earlier request has its
\* outcome and the sleep that followed each of them has elapsed.
C33_AttemptsSequential ==
    /\ [](Len(sent) - Len(outcomes) \in {0, 1})
    /\ [](tpPc = "fetch" <=> Len(sent) = Len(outcomes) + 1)
    /\ [][ Len(sent') > Len(sent)
           => /\ tpPc = "loop"
              /\ Len(sent') = Len(sent) + 1
              /\ Len(outcomes) = Len(sent)
              /\ Len(sleeps) = Len(sent)
              /\ Last(sent').attempt = Len(sent) + 1 ]_vars

\* The third request is in flight, after two outcomes and two sleeps.
C33_ThirdRequestInFlight ==
    /\ tpPc = "fetch"
    /\ Len(sent) = 3
    /\ Len(outcomes) = 2
    /\ Len(sleeps) = 2

----------------------------------------------------------------------------
(* Termination of the handlers' calls *)

\* The parsed body of a 2xx response, or an error.
SettledByReturnOrThrow(res, outs) ==
    \/ res.kind = "throw"
    \/ /\ res = Returned(Last(outs).status)
       /\ Last(outs).kind = "response"
       /\ ResponseOk(Last(outs).status)
       /\ Last(outs).bodyOk

\* How far a call is: every step of a call moves it up, and a call that is done
\* is at the top.
Rank(pc, a) ==
    CASE pc = "idle" -> 0
      [] pc = "loop" -> 3 * a - 2
      [] pc = "fetch" -> 3 * a - 1
      [] pc = "sleep" -> 3 * a
      [] pc = "done" -> 3 * maxRetries + 1

\* C34: a publish call and a generation call make at most 3 attempts and end,
\* whatever each attempt produces, by returning the parsed body of a 2xx
\* response or by throwing; none ends with the undefined result of a loop that
\* ran out. A call that waits for a fetch or sleeps can take a step (the fetch
\* settles, the sleep ends), and every step takes a call nearer to its end.
C34_CallsEndByReturnOrThrow ==
    /\ [](Len(sent) <= maxRetries /\ Len(outcomes) <= maxRetries)
    /\ [](ggRequests <= maxRetries /\ Len(ggOutcomes) <= maxRetries)
    /\ [](tpPc = "done" => (result = Thrown("Missing Twitter Credentials", 0)
                            \/ (Len(outcomes) >= 1 /\ SettledByReturnOrThrow(result, outcomes))))
    /\ [](ggPc = "done" => (ggResult = Thrown("Missing Gemini API Key", 0)
                            \/ (Len(ggOutcomes) >= 1
                                /\ SettledByReturnOrThrow(ggResult, ggOutcomes))))
    /\ [](tpPc \in {"fetch", "sleep"} => ENABLED PostSettles)
    /\ [](ggPc \in {"loop", "fetch", "sleep"} => ENABLED GeminiProgress)
    /\ [][ <<tpPc, attempt>>' # <<tpPc, attempt>>
           => Rank(tpPc', attempt') > Rank(tpPc, attempt) ]_vars
    /\ [][ <<ggPc, ggAttempt>>' # <<ggPc, ggAttempt>>
           => Rank(ggPc', ggAttempt') > Rank(ggPc, ggAttempt) ]_vars

\* A generation call has ended at its third attempt, after two sleeps.
C34_GenerationEndedAtThird ==
    /\ ggPc = "done"
    /\ ggRequests = 3
    /\ Len(ggOutcomes) = 3
    /\ ggSleeps = <<2000, 4000>>
    /\ ggResult.kind = "throw"

----------------------------------------------------------------------------
(* Error statuses in the 'gemini-generate' handler *)

\* C38: the generation handler retries an error status only when it is 503 and
\* attempts remain: a response with any other non-OK status ends the call at
\* that attempt with an error, with no sleep after it and no further request.
C38_Only503Retried ==
    \A i \in 1..Len(ggOutcomes) :
        ( /\ ggOutcomes[i].kind = "response"
          /\ ~ResponseOk(ggOutcomes[i].status)
          /\ ggOutcomes[i].status # 503 )
        => /\ ggPc = "done"
           /\ ggResult.kind = "throw"
           /\ ggRequests = i
           /\ Len(ggSleeps) <= i - 1

\* The first attempt was answered 400, its body was read, and a second request
\* has been sent after a sleep.
C38_RetriedAfter400 ==
    /\ Len(ggOutcomes) >= 1
    /\ ggOutcomes[1].kind = "response"
    /\ ggOutcomes[1].status = 400
    /\ ggOutcomes[1].bodyOk
    /\ ggSleeps[1] = 2000
    /\ ggRequests >= 2

----------------------------------------------------------------------------
(* Order of the steps of a cycle *)

\* C35: in a cycle the generation comes before the publishing: a cycle that is
\* generating has published nothing, a publish request is sent only by a cycle
\* whose generation has answered with a text that is not empty, and the text
\* it carries is that text.
C35_GenerationBeforePublish ==
    /\ [](\A c \in AllCycles :
            /\ c.pc = "generating" => (c.postRequests = 0 /\ c.posted = <<>>)
            /\ c.postRequests > 0 => /\ c.genRequests = 1
                                     /\ c.promptTopic = ""
                                     /\ c.text # ""
                                     /\ c.posted = <<c.text>>)
    /\ [][ \A i \in 1..Len(cycles) :
               (Len(cycles') = Len(cycles) /\ cycles'[i].posted # cycles[i].posted)
               => (cycles[i].pc = "delay" /\ cycles[i].text # "") ]_vars

\* A manual cycle is publishing the text its generation returned.
C35_PublishingGeneratedText ==
    \E i \in 1..Len(cycles) :
        /\ cycles[i].trigger = "manual"
        /\ cycles[i].pc = "posting"
        /\ cycles[i].text = "hello"
        /\ cycles[i].posted = <<"hello">>

----------------------------------------------------------------------------
(* The countdown *)

\* A tick of the countdown that changes what is displayed.
TickStep == timeRemaining' # timeRemaining /\ isAutomated'

\* C36: the countdown is display only: a tick changes the remaining time shown
\* and nothing else (not the intervals, the running flag, the next-run time, the
\* status or the cycles), and whatever the countdown shows the repeating timer
\* is due 40 minutes after the last scheduled trigger.
C36_CountdownIsCosmetic ==
    /\ [][ TickStep => UNCHANGED <<timers, timerRef, countdownRef, isAutomated, nextRunTime,
                                   status, cycles, lastDone, launched, lastSchedTrigger,
                                   now, mounted, config, topics>> ]_vars
    /\ [](isAutomated => \A t \in CycleTimers : /\ t.due = lastSchedTrigger + INTERVAL_MS
                                                /\ t.due = nextRunTime)

\* The countdown shows 40m 0s and the interval has fired at its time.
C36_TickedAndFired ==
    /\ isAutomated
    /\ timeRemaining = [kind |-> "left", minutes |-> 40, seconds |-> 0]
    /\ launched = 2
    /\ lastSchedTrigger = INTERVAL_MS

----------------------------------------------------------------------------
(* Unmounting *)

\* C37: unmounting the component stops the scheduler: whatever state it is in,
\* the step that unmounts it leaves no repeating timer and no countdown timer
\* armed and the scheduler not running, and none is armed afterwards.
C37_UnmountLeavesNoTimer ==
    /\ [][ (mounted /\ ~mounted')
           => /\ timers' = {}
              /\ ~isAutomated'
              /\ nextRunTime' = NoTime
              /\ status' = "idle" ]_vars
    /\ [](~mounted => (CycleTimers = {} /\ CountdownTimers = {} /\ ~isAutomated))

\* Unmounted after the interval has fired, with the cycle it started in flight.
C37_UnmountedAfterFiring ==
    /\ ~mounted
    /\ launched = 2
    /\ lastSchedTrigger = INTERVAL_MS
    /\ now = INTERVAL_MS
    /\ \E i \in 1..Len(cycles) : cycles[i].trigger = "timer" /\ cycles[i].pc = "generating"
    /\ timers = {}

----------------------------------------------------------------------------
(* Quit requests of the application itself *)

\* C39: every quit the application requests itself terminates it: once app.quit()
\* has been called (by File > Quit, by the uncaught-exception handler or by the
\* tray's Quit) the close of the window is not vetoed and the process is gone.
C39_QuitRequestTerminates ==
    quitRequested => (~appRunning /\ ~mainWindow)

\* app.quit() has been called without app.isQuitting: the window is hidden and
\* the application runs on.
C39_RunningAfterQuitRequest ==
    /\ quitRequested
    /\ ~isQuitting
    /\ appRunning
    /\ mainWindow
    /\ ~windowVisible
    /\ hasShownTrayNotice

====
